---- MODULE Spec2Model ----
(***************************************************************************)
(* The calculator engine of src/src/containers/App.js (AppContainer): the  *)
(* component state, the key handlers and the dispatcher handleClick.       *)
(*                                                                         *)
(* Strings are sequences of one-character strings, so that the string      *)
(* operations of the handlers (includes, concatenation, the leading-zero   *)
(* regular expression, Decimal parsing and toString) are computed.         *)
(*                                                                         *)
(* A key event is one atomic step: React batches the setState calls made   *)
(* inside an event handler and applies them, in call order, when the       *)
(* handler returns; this.state is not modified while the handler runs.     *)
(* A handler is therefore an operator from this.state and the key to the   *)
(* queue of updates it called setState with, and to what it threw.         *)
(*                                                                         *)
(* The Decimal class ('../utils/decimal-custom') and the keypads           *)
(* ('../global/keypads') are not among the sources; they are modelled from *)
(* the specification (sections 2, 4, 6 and 7).                             *)
(***************************************************************************)
EXTENDS Integers, Sequences, FiniteSets, TLC

VARIABLES
    state,      \* this.state of AppContainer
    thrown,     \* what the last key event threw: "none" or the error class
    trace       \* history: the ids of the keys pressed since construction,
                \* kept while they follow one of the Scripts, else Lost

vars == <<state, thrown, trace>>

----------------------------------------------------------------------------
(* Bounds of the exploration *)

\* Largest magnitude (in units) of a number on the display or stored in
\* currentOutput that the free exploration visits.
MaxVal == 1

----------------------------------------------------------------------------
(* Strings *)

DigitChars == <<"0", "1", "2", "3", "4", "5", "6", "7", "8", "9">>

Digits == {DigitChars[i] : i \in 1..10}

DigitValues == [c \in Digits |-> (CHOOSE i \in 1..10 : DigitChars[i] = c) - 1]

DigitVal(c) == DigitValues[c]

Includes(s, c) == \E i \in 1..Len(s) : s[i] = c

AllDigits(s) == \A i \in 1..Len(s) : s[i] \in Digits

CountOf(s, c) == Cardinality({i \in 1..Len(s) : s[i] = c})

\* Faulty variant: nothing is stripped.
StripLeadingZeroes_None(s) == s

\* String.prototype.replace(/^0+(?!\.)/, ''): the longest non-empty run of
\* zeroes at the start that is not followed by '.', removed; the greedy 0+
\* backtracks by one zero when the whole run is followed by '.'.
StripLeadingZeroes(s) ==
    LET matches == {k \in 1..Len(s) :
                      /\ \A i \in 1..k : s[i] = "0"
                      /\ (k = Len(s) \/ s[k + 1] # ".")}
    IN  IF matches = {} THEN s
        ELSE LET k == CHOOSE m \in matches : \A o \in matches : o <= m
             IN  SubSeq(s, k + 1, Len(s))

----------------------------------------------------------------------------
(* The Decimal collaborator: decimal values with DecimalPlaces fractional  *)
(* digits, held as integers in units of 1/Scale. A result that is not a    *)
(* multiple of 1/Scale is marked inexact; the exploration does not go on   *)
(* from it.                                                                *)

DecimalPlaces == 1

RECURSIVE Pow10(_)
Pow10(k) == IF k = 0 THEN 1 ELSE 10 * Pow10(k - 1)

Scale == Pow10(DecimalPlaces)

Abs(n) == IF n < 0 THEN -n ELSE n

Sign(n) == IF n < 0 THEN -1 ELSE 1

\* The number that the first k digits of ds (all of them by ToNat) stand for.
RECURSIVE ToNatUpTo(_, _)
ToNatUpTo(ds, k) ==
    IF k = 0 THEN 0 ELSE 10 * ToNatUpTo(ds, k - 1) + DigitVal(ds[k])

ToNat(ds) == ToNatUpTo(ds, Len(ds))

RECURSIVE NatToStr(_)
NatToStr(n) ==
    IF n < 10 THEN <<DigitChars[n + 1]>>
    ELSE NatToStr(n \div 10) \o <<DigitChars[(n % 10) + 1]>>

\* The digits of the fraction f/Scale, without trailing zeroes.
RECURSIVE FracToStr(_, _)
FracToStr(f, places) ==
    IF f = 0 \/ places = 0 THEN <<>>
    ELSE LET unit == Pow10(places - 1)
         IN  <<DigitChars[(f \div unit) + 1]>> \o FracToStr(f % unit, places - 1)

DecErr == [ok |-> FALSE, n |-> 0, exact |-> TRUE]

Dec(n, exact) == [ok |-> TRUE, n |-> n, exact |-> exact]

\* new Decimal(string): an optional sign, then digits with at most one '.'
\* and at least one digit; anything else is an invalid operand.
DecimalFromString(s) ==
    LET neg  == s # <<>> /\ s[1] = "-"
        body == IF neg THEN Tail(s) ELSE s
        dots == {i \in 1..Len(body) : body[i] = "."}
        p    == IF dots = {} THEN Len(body) + 1
                ELSE CHOOSE i \in dots : \A j \in dots : i <= j
        ip   == SubSeq(body, 1, p - 1)
        fp   == SubSeq(body, p + 1, Len(body))
        kept == [i \in 1..DecimalPlaces |-> IF i <= Len(fp) THEN fp[i] ELSE "0"]
    IN  IF ~(AllDigits(ip) /\ AllDigits(fp) /\ Len(ip) + Len(fp) >= 1)
        THEN DecErr
        ELSE Dec((IF neg THEN -1 ELSE 1) * (ToNat(ip) * Scale + ToNat(kept)),
                 \A i \in (DecimalPlaces + 1)..Len(fp) : fp[i] = "0")

\* Decimal.prototype.toString: the normalized decimal literal.
DecimalToString(n) ==
    LET a == Abs(n)
        f == FracToStr(a % Scale, DecimalPlaces)
    IN  (IF n < 0 THEN <<"-">> ELSE <<>>)
        \o NatToStr(a \div Scale)
        \o (IF f = <<>> THEN <<>> ELSE <<".">> \o f)

\* The binary operations; dividing by zero is an ArithmeticDomainError.
DecimalBinary(operation, a, b) ==
    IF ~a.ok \/ ~b.ok THEN DecErr
    ELSE CASE operation = "add"      -> Dec(a.n + b.n, a.exact /\ b.exact)
           [] operation = "subtract" -> Dec(a.n - b.n, a.exact /\ b.exact)
           [] operation = "multiply" ->
                Dec(Sign(a.n) * Sign(b.n) * ((Abs(a.n) * Abs(b.n)) \div Scale),
                    a.exact /\ b.exact /\ (Abs(a.n) * Abs(b.n)) % Scale = 0)
           [] operation = "divide"   ->
                IF b.n = 0 THEN DecErr
                ELSE Dec(Sign(a.n) * Sign(b.n) * ((Abs(a.n) * Scale) \div Abs(b.n)),
                         a.exact /\ b.exact /\ (Abs(a.n) * Scale) % Abs(b.n) = 0)

\* The unary operations; an operand out of the operation's domain is an
\* ArithmeticDomainError.
DecimalUnary(operation, a) ==
    IF ~a.ok THEN DecErr
    ELSE CASE operation = "sqrt" ->
                IF a.n < 0 THEN DecErr
                ELSE LET r == CHOOSE x \in 0..(a.n + Scale) :
                                x * x <= a.n * Scale /\ (x + 1) * (x + 1) > a.n * Scale
                     IN  Dec(r, a.exact /\ r * r = a.n * Scale)
           [] operation = "reciprocal" ->
                IF a.n = 0 THEN DecErr
                ELSE Dec(Sign(a.n) * ((Scale * Scale) \div Abs(a.n)),
                         a.exact /\ (Scale * Scale) % Abs(a.n) = 0)

----------------------------------------------------------------------------
(* The keys of the keypad *)

BinaryIds == {"add", "subtract", "multiply", "divide"}

UnaryIds == {"sqrt", "reciprocal", "percent"}

FunctionIds == {"trigUnit", "mode"}

Key(type, id, textContent) == [type |-> type, id |-> id, textContent |-> textContent]

NumberKeys == {Key("number", d, d) : d \in Digits} \cup {Key("number", "decimal", ".")}

BinaryOperationKeys == {Key("binaryOperation", id, id) : id \in BinaryIds}

UnaryOperationKeys == {Key("unaryOperation", id, id) : id \in UnaryIds}

KeyDecimal == Key("number", "decimal", ".")

KeyEquals == Key("equals", "equals", "=")

KeyClear == Key("clear", "clear", "C")

EqualsKeys == {KeyEquals}

ClearKeys == {KeyClear}

FunctionKeys == {Key("function", id, id) : id \in FunctionIds}

\* A key whose type has no handler.
UnknownKeys == {Key("memory", "memory", "M")}

----------------------------------------------------------------------------
(* this.state *)

\* currentOutput is null, a string (stored by the binary operation key) or
\* a Decimal (stored by the equals key).
Null == [kind |-> "null", str |-> <<>>, n |-> 0, exact |-> TRUE]

Str(s) == [kind |-> "string", str |-> s, n |-> 0, exact |-> TRUE]

DecimalValue(d) == [kind |-> "Decimal", str |-> <<>>, n |-> d.n, exact |-> d.exact]

InitialState ==
    [displayValue |-> <<"0">>,
     currentOutput |-> Null,
     currentOperation |-> "null",
     resetDisplayValueOnNextKeyPress |-> TRUE,
     mode |-> "scientific",
     trigUnit |-> "deg"]

\* new Decimal(value) for a value of this.state.
DecimalNew(v) ==
    CASE v.kind = "string"  -> DecimalFromString(v.str)
      [] v.kind = "Decimal" -> Dec(v.n, v.exact)
      [] OTHER              -> DecErr

----------------------------------------------------------------------------
(* setState *)

\* The state with the fields of the partial state p replaced.
Merge(s, p) ==
    LET has(f) == f \in DOMAIN p
    IN  [displayValue |-> IF has("displayValue") THEN p.displayValue ELSE s.displayValue,
         currentOutput |-> IF has("currentOutput") THEN p.currentOutput ELSE s.currentOutput,
         currentOperation |->
             IF has("currentOperation") THEN p.currentOperation ELSE s.currentOperation,
         resetDisplayValueOnNextKeyPress |->
             IF has("resetDisplayValueOnNextKeyPress")
             THEN p.resetDisplayValueOnNextKeyPress
             ELSE s.resetDisplayValueOnNextKeyPress,
         mode |-> IF has("mode") THEN p.mode ELSE s.mode,
         trigUnit |-> IF has("trigUnit") THEN p.trigUnit ELSE s.trigUnit]

\* setState(object) and setState(updater function).
SetObject(p) == [fn |-> "object", patch |-> p]

SetUpdater(name, arg) == [fn |-> name, arg |-> arg]

\* Faulty variant: the updater stores no first operand.
ArmOperation_NoOutput(prevState, operation) ==
    [currentOperation |-> operation,
     resetDisplayValueOnNextKeyPress |-> TRUE]

\* Faulty variant: the updater does not prime the next digit.
ArmOperation_NoReset(prevState, operation) ==
    [currentOperation |-> operation,
     currentOutput |-> Str(prevState.displayValue)]

\* The updater of handleBinaryOperationKey: prevState is the state with the
\* updates queued before it applied.
ArmOperation(prevState, operation) ==
    [currentOperation |-> operation,
     currentOutput |-> Str(prevState.displayValue),
     resetDisplayValueOnNextKeyPress |-> TRUE]

\* The updater of handleFunctionKey.
ToggleTrigUnit(prevState) ==
    [trigUnit |-> IF prevState.trigUnit = "deg" THEN "rad" ELSE "deg"]

ApplyUpdate(s, u) ==
    CASE u.fn = "object"         -> Merge(s, u.patch)
      [] u.fn = "armOperation"   -> Merge(s, ArmOperation(s, u.arg))
      [] u.fn = "toggleTrigUnit" -> Merge(s, ToggleTrigUnit(s))

\* The queued updates applied in the order of the setState calls.
RECURSIVE ProcessQueue(_, _)
ProcessQueue(s, queue) ==
    IF queue = <<>> THEN s
    ELSE ProcessQueue(ApplyUpdate(s, Head(queue)), Tail(queue))

----------------------------------------------------------------------------
(* The handlers: the updates queued and the error thrown, from this.state *)

Returns(queue) == [queue |-> queue, thrown |-> "none"]

Throws(error) == [queue |-> <<>>, thrown |-> error]

\* Faulty variant: the decimal key is appended without the includes('.') test.
handleNumberKey_NoDecimalCheck(s, key) ==
    LET start == IF s.resetDisplayValueOnNextKeyPress THEN <<>> ELSE s.displayValue
        displayValue ==
            IF key.id = "decimal"
            THEN (IF start # <<>> THEN start \o <<".">> ELSE <<"0", ".">>)
            ELSE start \o <<key.textContent>>
    IN  Returns(<<SetObject([displayValue |-> StripLeadingZeroes(displayValue),
                             resetDisplayValueOnNextKeyPress |-> FALSE])>>)

\* Faulty variant: the digit is always appended to the display.
handleNumberKey_IgnoresReset(s, key) ==
    LET start == s.displayValue
        displayValue ==
            IF key.id = "decimal" /\ ~Includes(start, ".")
            THEN (IF start # <<>> THEN start \o <<".">> ELSE <<"0", ".">>)
            ELSE IF key.id # "decimal" THEN start \o <<key.textContent>>
            ELSE start
    IN  Returns(<<SetObject([displayValue |-> StripLeadingZeroes(displayValue),
                             resetDisplayValueOnNextKeyPress |-> FALSE])>>)

handleNumberKey(s, key) ==
    LET prevDisplayValue == s.displayValue
        start == IF s.resetDisplayValueOnNextKeyPress THEN <<>> ELSE prevDisplayValue
        displayValue ==
            IF key.id = "decimal" /\ ~Includes(start, ".")
            THEN (IF start # <<>> THEN start \o <<".">> ELSE <<"0", ".">>)
            ELSE IF key.id # "decimal" THEN start \o <<key.textContent>>
            ELSE start
    IN  Returns(<<SetObject([displayValue |-> StripLeadingZeroes(displayValue),
                             resetDisplayValueOnNextKeyPress |-> FALSE])>>)

\* Faulty variant: with nothing pending the equals key still primes the next
\* digit.
handleEqualsKey_AlwaysResets(s) ==
    IF s.currentOperation = "null"
    THEN Returns(<<SetObject([resetDisplayValueOnNextKeyPress |-> TRUE])>>)
    ELSE LET firstOperand  == DecimalNew(s.currentOutput)
             secondOperand == DecimalFromString(s.displayValue)
             output == DecimalBinary(s.currentOperation, firstOperand, secondOperand)
         IN  IF ~output.ok THEN Throws("ArithmeticDomainError")
             ELSE Returns(<<SetObject([currentOperation |-> "null",
                                       currentOutput |-> DecimalValue(output),
                                       displayValue |-> DecimalToString(output.n),
                                       resetDisplayValueOnNextKeyPress |-> TRUE])>>)

\* Faulty variant: the result is shown without priming the next digit.
handleEqualsKey_NoReset(s) ==
    IF s.currentOperation = "null" THEN Returns(<<>>)
    ELSE LET firstOperand  == DecimalNew(s.currentOutput)
             secondOperand == DecimalFromString(s.displayValue)
             output == DecimalBinary(s.currentOperation, firstOperand, secondOperand)
         IN  IF ~output.ok THEN Throws("ArithmeticDomainError")
             ELSE Returns(<<SetObject([currentOperation |-> "null",
                                       currentOutput |-> DecimalValue(output),
                                       displayValue |-> DecimalToString(output.n)])>>)

\* Faulty variant: the operands are taken in the wrong order.
handleEqualsKey_SwappedOperands(s) ==
    IF s.currentOperation = "null" THEN Returns(<<>>)
    ELSE LET firstOperand  == DecimalFromString(s.displayValue)
             secondOperand == DecimalNew(s.currentOutput)
             output == DecimalBinary(s.currentOperation, firstOperand, secondOperand)
         IN  IF ~output.ok THEN Throws("ArithmeticDomainError")
             ELSE Returns(<<SetObject([currentOperation |-> "null",
                                       currentOutput |-> DecimalValue(output),
                                       displayValue |-> DecimalToString(output.n),
                                       resetDisplayValueOnNextKeyPress |-> TRUE])>>)

handleEqualsKey(s) ==
    IF s.currentOperation = "null" THEN Returns(<<>>)
    ELSE LET firstOperand  == DecimalNew(s.currentOutput)
             secondOperand == DecimalFromString(s.displayValue)
             output == DecimalBinary(s.currentOperation, firstOperand, secondOperand)
         IN  IF ~output.ok THEN Throws("ArithmeticDomainError")
             ELSE Returns(<<SetObject([currentOperation |-> "null",
                                       currentOutput |-> DecimalValue(output),
                                       displayValue |-> DecimalToString(output.n),
                                       resetDisplayValueOnNextKeyPress |-> TRUE])>>)

\* Faulty variant: the new operation is armed before the pending one is
\* resolved.
handleBinaryOperationKey_ArmFirst(s, key) ==
    LET operation == key.id
        resolved  == IF s.currentOperation # "null" THEN handleEqualsKey(s)
                     ELSE Returns(<<>>)
    IN  IF resolved.thrown # "none" THEN resolved
        ELSE Returns(<<SetUpdater("armOperation", operation)>> \o resolved.queue)

\* Faulty variant: the first operand is the displayValue read at the start of
\* the handler (line 89) instead of prevState.displayValue.
handleBinaryOperationKey_EntryDisplay(s, key) ==
    LET operation == key.id
        resolved  == IF s.currentOperation # "null" THEN handleEqualsKey(s)
                     ELSE Returns(<<>>)
    IN  IF resolved.thrown # "none" THEN resolved
        ELSE Returns(resolved.queue
                     \o <<SetObject([currentOperation |-> operation,
                                     currentOutput |-> Str(s.displayValue),
                                     resetDisplayValueOnNextKeyPress |-> TRUE])>>)

\* Faulty variant: the new operation is armed although the resolve threw.
handleBinaryOperationKey_ArmsAfterThrow(s, key) ==
    LET operation == key.id
        resolved  == IF s.currentOperation # "null" THEN handleEqualsKey(s)
                     ELSE Returns(<<>>)
    IN  [queue |-> resolved.queue \o <<SetUpdater("armOperation", operation)>>,
         thrown |-> resolved.thrown]

handleBinaryOperationKey(s, key) ==
    LET operation == key.id
        resolved  == IF s.currentOperation # "null" THEN handleEqualsKey(s)
                     ELSE Returns(<<>>)
    IN  IF resolved.thrown # "none" THEN resolved
        ELSE Returns(resolved.queue \o <<SetUpdater("armOperation", operation)>>)

\* Faulty variant: the result also primes the next digit.
handleUnaryOperationKey_Resets(s, key) ==
    LET operation == key.id
        operand == DecimalFromString(s.displayValue)
        output  == IF operation = "percent"
                   THEN DecimalBinary("divide", operand, Dec(100 * Scale, TRUE))
                   ELSE DecimalUnary(operation, operand)
    IN  IF ~output.ok THEN Throws("ArithmeticDomainError")
        ELSE Returns(<<SetObject([displayValue |-> DecimalToString(output.n),
                                  resetDisplayValueOnNextKeyPress |-> TRUE])>>)

handleUnaryOperationKey(s, key) ==
    LET operation == key.id
        operand == DecimalFromString(s.displayValue)
        output  == IF operation = "percent"
                   THEN DecimalBinary("divide", operand, Dec(100 * Scale, TRUE))
                   ELSE DecimalUnary(operation, operand)
    IN  IF ~output.ok THEN Throws("ArithmeticDomainError")
        ELSE Returns(<<SetObject([displayValue |-> DecimalToString(output.n)])>>)

\* Faulty variant: the stored first operand survives the clear key.
handleClearKey_KeepsOutput(s, key) ==
    Returns(<<SetObject([currentOperation |-> "null",
                         displayValue |-> <<"0">>,
                         resetDisplayValueOnNextKeyPress |-> TRUE])>>)

handleClearKey(s, key) ==
    Returns(<<SetObject([currentOperation |-> "null",
                         currentOutput |-> Null,
                         displayValue |-> <<"0">>,
                         resetDisplayValueOnNextKeyPress |-> TRUE])>>)

\* Faulty variant: every function key toggles the unit.
handleFunctionKey_AnyId(s, key) == Returns(<<SetUpdater("toggleTrigUnit", "")>>)

handleFunctionKey(s, key) ==
    IF key.id = "trigUnit" THEN Returns(<<SetUpdater("toggleTrigUnit", "")>>)
    ELSE Returns(<<>>)

\* Faulty variant: a type without a handler is ignored silently.
handleClick_Fallback(s, key) ==
    CASE key.type = "number"          -> handleNumberKey(s, key)
      [] key.type = "binaryOperation" -> handleBinaryOperationKey(s, key)
      [] key.type = "unaryOperation"  -> handleUnaryOperationKey(s, key)
      [] key.type = "equals"          -> handleEqualsKey(s)
      [] key.type = "clear"           -> handleClearKey(s, key)
      [] key.type = "function"        -> handleFunctionKey(s, key)
      [] OTHER                        -> Returns(<<>>)

\* this[camelCase(`handle-${type}-Key`)].call(this, event.currentTarget):
\* a type without a handler is a TypeError.
handleClick(s, key) ==
    CASE key.type = "number"          -> handleNumberKey(s, key)
      [] key.type = "binaryOperation" -> handleBinaryOperationKey(s, key)
      [] key.type = "unaryOperation"  -> handleUnaryOperationKey(s, key)
      [] key.type = "equals"          -> handleEqualsKey(s)
      [] key.type = "clear"           -> handleClearKey(s, key)
      [] key.type = "function"        -> handleFunctionKey(s, key)
      [] OTHER                        -> Throws("ProgrammingError")

----------------------------------------------------------------------------
(* The range of the exploration *)

\* Key sequences followed from construction whatever the numbers they make:
\* a digit, a binary operation, a digit, equals; and the sequences of the
\* specification's testable properties. A script is a sequence of sets of
\* key ids.
Scripts ==
    {<<Digits, BinaryIds, Digits, {"equals"}>>,
     <<{"3"}, {"add"}, {"4"}, {"multiply"}, {"5"}, {"equals"}>>,
     <<{"3"}, {"add"}, {"multiply"}, {"4"}, {"equals"}>>,
     <<{"9"}, {"add"}, {"1"}, {"sqrt"}, {"equals"}>>,
     <<{"0"}, {"0"}, {"5"}>>,
     <<{"0"}, {"decimal"}, {"5"}>>,
     <<{"decimal"}, {"decimal"}>>,
     <<{"5"}, {"add"}, {"2"}, {"clear"}>>,
     <<{"1"}, {"add"}, {"2"}, {"equals"}, {"equals"}>>,
     <<{"1"}, {"2"}>>,
     <<{"5"}, {"divide"}, {"decimal"}, {"add"}>>}

Lost == <<"lost">>

Follows(t, script) ==
    /\ Len(t) <= Len(script)
    /\ \A i \in 1..Len(t) : t[i] \in script[i]

Record(t, key) ==
    IF t # Lost /\ \E script \in Scripts : Follows(Append(t, key.id), script)
    THEN Append(t, key.id)
    ELSE Lost

\* The number of characters after the '.' of a string.
FracLen(s) ==
    IF Includes(s, ".")
    THEN Len(s) - (CHOOSE i \in 1..Len(s) : s[i] = "." /\ \A j \in 1..(i - 1) : s[j] # ".")
    ELSE 0

StringInRange(s) ==
    \/ s = <<>>
    \/ /\ FracLen(s) <= DecimalPlaces
       /\ LET d == DecimalFromString(s)
          IN  d.ok /\ d.exact /\ Abs(d.n) <= MaxVal * Scale

InRange(s) ==
    /\ StringInRange(s.displayValue)
    /\ CASE s.currentOutput.kind = "string"  -> StringInRange(s.currentOutput.str)
         [] s.currentOutput.kind = "Decimal" ->
                s.currentOutput.exact /\ Abs(s.currentOutput.n) <= MaxVal * Scale
         [] OTHER -> TRUE

\* The states the exploration goes on from: those on a script, and those
\* whose numbers are within MaxVal and exact at DecimalPlaces.
Explored(s, t) == t # Lost \/ InRange(s)

----------------------------------------------------------------------------
(* The state machine *)

Init ==
    /\ state = InitialState
    /\ thrown = "none"
    /\ trace = <<>>

\* One key event is one step: handleClick runs the handler of the key's type
\* on this.state, the updates it queued are applied in order, and the shell
\* renders the result. What the handler threw is kept in thrown.
After(s, key) == ProcessQueue(s, handleClick(s, key).queue)

ThrownBy(s, key) == handleClick(s, key).thrown

\* A digit key or the decimal key.
NumberKey ==
    \E key \in NumberKeys :
        /\ state' = After(state, key)
        /\ thrown' = ThrownBy(state, key)
        /\ trace' = Record(trace, key)
        /\ Explored(state', trace')

\* Add, subtract, multiply or divide.
BinaryOperationKey ==
    \E key \in BinaryOperationKeys :
        /\ state' = After(state, key)
        /\ thrown' = ThrownBy(state, key)
        /\ trace' = Record(trace, key)
        /\ Explored(state', trace')

\* Sqrt, reciprocal or percent.
UnaryOperationKey ==
    \E key \in UnaryOperationKeys :
        /\ state' = After(state, key)
        /\ thrown' = ThrownBy(state, key)
        /\ trace' = Record(trace, key)
        /\ Explored(state', trace')

\* The equals key.
EqualsKey ==
    \E key \in EqualsKeys :
        /\ state' = After(state, key)
        /\ thrown' = ThrownBy(state, key)
        /\ trace' = Record(trace, key)
        /\ Explored(state', trace')

\* The clear key.
ClearKey ==
    \E key \in ClearKeys :
        /\ state' = After(state, key)
        /\ thrown' = ThrownBy(state, key)
        /\ trace' = Record(trace, key)
        /\ Explored(state', trace')

\* A function key.
FunctionKey ==
    \E key \in FunctionKeys :
        /\ state' = After(state, key)
        /\ thrown' = ThrownBy(state, key)
        /\ trace' = Record(trace, key)
        /\ Explored(state', trace')

\* A key of a type that has no handler.
UnknownKey ==
    \E key \in UnknownKeys :
        /\ state' = After(state, key)
        /\ thrown' = ThrownBy(state, key)
        /\ trace' = Record(trace, key)
        /\ Explored(state', trace')

Next ==
    \/ NumberKey
    \/ BinaryOperationKey
    \/ UnaryOperationKey
    \/ EqualsKey
    \/ ClearKey
    \/ FunctionKey
    \/ UnknownKey

Spec == Init /\ [][Next]_vars

----------------------------------------------------------------------------
(* Properties *)

Pending(s) == s.currentOperation # "null"

\* The number, in units of 1/Scale, that the string s stands for to the
\* user: pressing "0" alone leaves the empty string.
NumberEntered(s) == IF s = <<>> THEN Dec(0, TRUE) ELSE DecimalFromString(s)

\* a op b over the integers, in units of 1/Scale; defined is false for a
\* division by zero and for a quotient or product that is no multiple of
\* 1/Scale.
Arith(operation, a, b) ==
    CASE operation = "add"      -> [defined |-> TRUE, n |-> a + b]
      [] operation = "subtract" -> [defined |-> TRUE, n |-> a - b]
      [] operation = "multiply" ->
            [defined |-> (Abs(a) * Abs(b)) % Scale = 0,
             n |-> Sign(a) * Sign(b) * ((Abs(a) * Abs(b)) \div Scale)]
      [] operation = "divide"   ->
            IF b = 0 THEN [defined |-> FALSE, n |-> 0]
            ELSE [defined |-> (Abs(a) * Scale) % Abs(b) = 0,
                  n |-> Sign(a) * Sign(b) * ((Abs(a) * Scale) \div Abs(b))]

\* C1: a binary operation key pressed while op1 is pending with first operand
\* a stored and second operand b displayed resolves op1 first: afterwards
\* displayValue is the string of (a op1 b), currentOutput is that result and
\* currentOperation is the key pressed; and 3, add, 4, multiply, 5, equals
\* ends with "35".
C1_ChainingResolvesPending ==
    /\ \A key \in BinaryOperationKeys :
         LET a == IF state.currentOutput.kind = "string"
                  THEN NumberEntered(state.currentOutput.str)
                  ELSE DecimalNew(state.currentOutput)
             b == NumberEntered(state.displayValue)
             r == Arith(state.currentOperation, a.n, b.n)
             t == After(state, key)
         IN  (Pending(state) /\ a.ok /\ b.ok /\ r.defined) =>
                /\ t.displayValue = DecimalToString(r.n)
                /\ t.currentOutput = Str(DecimalToString(r.n))
                /\ t.currentOperation = key.id
    /\ trace = <<"3", "add", "4", "multiply", "5", "equals">> =>
         state.displayValue = <<"3", "5">>

\* C2: from the start state, for digit keys a and b and a binary operator op
\* (b not 0 for divide), the keys a, op, b, equals end with displayValue the
\* string of (a op b), a on the left and b on the right.
C2_BasicBinaryOperation ==
    (/\ Len(trace) = 4
     /\ trace[1] \in Digits /\ trace[2] \in BinaryIds
     /\ trace[3] \in Digits /\ trace[4] = "equals") =>
        LET r == Arith(trace[2], DigitVal(trace[1]) * Scale, DigitVal(trace[3]) * Scale)
        IN  r.defined => state.displayValue = DecimalToString(r.n)

\* C3: displayValue is never the empty string.
C3_DisplayNeverEmpty == state.displayValue # <<>>

\* /^\d*\.?\d*$/.test(s)
MatchesDecimalLiteral(s) ==
    /\ \A i \in 1..Len(s) : s[i] \in Digits \cup {"."}
    /\ CountOf(s, ".") <= 1

\* /^-?\d*\.?\d*$/.test(s)
MatchesSignedLiteral(s) ==
    IF s # <<>> /\ s[1] = "-" THEN MatchesDecimalLiteral(Tail(s))
    ELSE MatchesDecimalLiteral(s)

\* C4 as stated: in every reachable state displayValue matches ^\d*\.?\d*$,
\* decimal digits with at most one '.', no sign and no other character.
C4_Original == MatchesDecimalLiteral(state.displayValue)

\* C4 (amended): in every reachable state displayValue is decimal digits with
\* at most one '.', after an optional leading '-': the result of a binary or
\* unary operation can be negative.
C4_DisplaySignedLiteral == MatchesSignedLiteral(state.displayValue)

C4_Witness ==
    /\ state.displayValue # <<>> /\ state.displayValue[1] = "-"
    /\ Includes(state.displayValue, ".")
    /\ thrown = "none"

\* C5 as stated: currentOperation is set if and only if currentOutput is set.
C5_Original == Pending(state) <=> state.currentOutput # Null

\* C5 (amended): whenever currentOperation is set, currentOutput is set; the
\* converse fails in the state the equals handler leaves.
C5_PendingHasOutput == Pending(state) => state.currentOutput # Null

C5_Witness ==
    /\ Pending(state)
    /\ state.currentOutput = Str(<<"5">>)
    /\ trace = <<"5", "add">>

C7_ClearRestoresInitial ==
    \A key \in ClearKeys :
        LET t == After(state, key)
        IN  /\ t.displayValue = InitialState.displayValue
            /\ t.currentOperation = InitialState.currentOperation
            /\ t.currentOutput = InitialState.currentOutput
            /\ t.resetDisplayValueOnNextKeyPress =
                   InitialState.resetDisplayValueOnNextKeyPress
            /\ ThrownBy(state, key) = "none"

C7_Witness ==
    /\ trace = <<"5", "add", "2", "clear">>
    /\ state = InitialState

\* The second operand on the display is zero: a zero literal, or the empty
\* string that the "0" key leaves.
DisplaysZero(s) ==
    \/ s.displayValue = <<>>
    \/ LET d == DecimalFromString(s.displayValue) IN d.ok /\ d.n = 0

C9_UnaryChangesDisplayOnly ==
    /\ \A key \in UnaryOperationKeys :
         LET t == After(state, key)
         IN  /\ t.currentOperation = state.currentOperation
             /\ t.currentOutput = state.currentOutput
             /\ t.resetDisplayValueOnNextKeyPress = state.resetDisplayValueOnNextKeyPress
             /\ t.mode = state.mode
             /\ t.trigUnit = state.trigUnit
    /\ trace = <<"9", "add", "1", "sqrt", "equals">> =>
         state.displayValue = <<"1", "0">>

C9_Witness ==
    /\ trace = <<"9", "add", "1", "sqrt", "equals">>
    /\ state.displayValue = <<"1", "0">>
    /\ thrown = "none"

\* C10: the decimal key pressed when the pending string already contains '.'
\* changes nothing; pressed twice from a state with
\* resetDisplayValueOnNextKeyPress true it yields "0."; and displayValue
\* never contains more than one '.'.
C10_DecimalKeyIdempotent ==
    /\ (~state.resetDisplayValueOnNextKeyPress /\ Includes(state.displayValue, ".")) =>
         /\ After(state, KeyDecimal) = state
         /\ ThrownBy(state, KeyDecimal) = "none"
    /\ state.resetDisplayValueOnNextKeyPress =>
         After(After(state, KeyDecimal), KeyDecimal).displayValue = <<"0", ".">>
    /\ trace = <<"decimal", "decimal">> => state.displayValue = <<"0", ".">>
    /\ CountOf(state.displayValue, ".") <= 1

C10_Witness ==
    /\ trace = <<"decimal", "decimal">>
    /\ state.displayValue = <<"0", ".">>
    /\ ~state.resetDisplayValueOnNextKeyPress

\* A string has no leading '0' other than a single one followed by '.'.
NoLeadingZero(s) == s = <<>> \/ s[1] # "0" \/ (Len(s) >= 2 /\ s[2] = ".")

\* C11: after every digit or decimal key displayValue has no leading '0'
\* other than a single '0' immediately followed by '.'; from the start state
\* 0, 0, 5 yields "5" and 0, decimal, 5 yields "0.5".
C11_LeadingZeroesStripped ==
    /\ \A key \in NumberKeys : NoLeadingZero(After(state, key).displayValue)
    /\ trace = <<"0", "0", "5">> => state.displayValue = <<"5">>
    /\ trace = <<"0", "decimal", "5">> => state.displayValue = <<"0", ".", "5">>

C11_Witness ==
    /\ trace = <<"0", "decimal", "5">>
    /\ state.displayValue = <<"0", ".", "5">>

\* C12: with no operation pending the equals key changes no field of the
\* session and throws nothing; a second equals does not apply the last
\* operation again.
C12_EqualsWithoutPendingIsNoOp ==
    /\ ~Pending(state) =>
         /\ After(state, KeyEquals) = state
         /\ ThrownBy(state, KeyEquals) = "none"
    /\ trace = <<"1", "add", "2", "equals", "equals">> =>
         state.displayValue = <<"3">>

C12_Witness ==
    /\ trace = <<"1", "add", "2", "equals", "equals">>
    /\ state.displayValue = <<"3">>
    /\ state.currentOutput.kind = "Decimal"

AllKeys ==
    NumberKeys \cup BinaryOperationKeys \cup UnaryOperationKeys \cup EqualsKeys
    \cup ClearKeys \cup FunctionKeys \cup UnknownKeys

\* C13: no key changes mode; the function key trigUnit toggles trigUnit
\* between deg and rad and changes nothing else; every other key leaves
\* trigUnit as it is.
C13_ModeAndTrigUnit ==
    /\ state.mode = InitialState.mode
    /\ \A key \in AllKeys :
         LET t == After(state, key)
         IN  /\ t.mode = state.mode
             /\ IF key.type = "function" /\ key.id = "trigUnit"
                THEN /\ t = [state EXCEPT !.trigUnit =
                                IF state.trigUnit = "deg" THEN "rad" ELSE "deg"]
                     /\ t.trigUnit \in {"deg", "rad"}
                ELSE t.trigUnit = state.trigUnit

C13_Witness ==
    /\ state.trigUnit = "rad"
    /\ Pending(state)
    /\ ~state.resetDisplayValueOnNextKeyPress

FreshNumber ==
    [digit \in Digits |-> After(InitialState, Key("number", digit, digit)).displayValue]

C16_IdlePendingTransitions ==
    /\ trace = <<>> => ~Pending(state)
    /\ \A key \in AllKeys :
         LET t == After(state, key)
         IN  /\ (~Pending(state) /\ Pending(t)) => key.type = "binaryOperation"
             /\ (Pending(state) /\ ~Pending(t)) => key.type \in {"equals", "clear"}
             /\ (Pending(state) /\ key.type = "binaryOperation") => Pending(t)
             /\ key.type \in {"number", "unaryOperation", "function"} =>
                    (Pending(t) <=> Pending(state))

C16_Witness ==
    /\ trace = <<"3", "add", "4", "multiply", "5">>
    /\ Pending(state)
    /\ state.currentOperation = "multiply"

C18_DigitEntry ==
    /\ \A digit \in Digits :
         LET key == Key("number", digit, digit)
             t == After(state, key)
         IN  /\ ThrownBy(state, key) = "none"
             /\ t.displayValue =
                   IF state.resetDisplayValueOnNextKeyPress THEN FreshNumber[digit]
                   ELSE StripLeadingZeroes(Append(state.displayValue, digit))
             /\ t.currentOperation = state.currentOperation
             /\ t.currentOutput = state.currentOutput
    /\ trace = <<"1", "2">> => state.displayValue = <<"1", "2">>

C18_Witness ==
    /\ trace = <<"1", "2">>
    /\ state.displayValue = <<"1", "2">>
    /\ ~state.resetDisplayValueOnNextKeyPress

\* C19: when the arithmetic of the equals handler throws, no field of the
\* session changes; thrown during the implicit resolve of a chained binary
\* operation key, the new operation is not armed and the old one stays
\* pending.
C19_ThrowChangesNothing ==
    /\ \A key \in EqualsKeys \cup BinaryOperationKeys :
         ThrownBy(state, key) # "none" =>
            /\ After(state, key) = state
            /\ Pending(state)
    /\ trace = <<"5", "divide", "decimal", "add">> =>
         /\ thrown = "ArithmeticDomainError"
         /\ state.currentOperation = "divide"
         /\ state.currentOutput = Str(<<"5">>)
         /\ state.displayValue = <<"0", ".">>
         /\ ~state.resetDisplayValueOnNextKeyPress

C19_Witness ==
    /\ trace = <<"5", "divide", "decimal", "add">>
    /\ thrown = "ArithmeticDomainError"
    /\ state.currentOperation = "divide"

\* C20: a binary operation key pressed directly after another one, with the
\* first operand a on the display, resolves the pending operation with a as
\* both operands: displayValue becomes the string of (a op1 a), currentOutput
\* that result, and the key pressed is pending; 3, add, multiply, 4, equals
\* ends with "24".
C20_OperatorAfterOperator ==
    /\ (/\ Pending(state)
        /\ state.resetDisplayValueOnNextKeyPress
        /\ state.currentOutput = Str(state.displayValue)) =>
         \A key \in BinaryOperationKeys :
            LET a == NumberEntered(state.displayValue)
                r == Arith(state.currentOperation, a.n, a.n)
                t == After(state, key)
            IN  (a.ok /\ r.defined) =>
                   /\ t.displayValue = DecimalToString(r.n)
                   /\ t.currentOutput = Str(DecimalToString(r.n))
                   /\ t.currentOperation = key.id
    /\ trace = <<"3", "add", "multiply", "4", "equals">> =>
         state.displayValue = <<"2", "4">>

====
